---- MODULE Spec2Model ----
(***************************************************************************)
(* State-machine model of the rvmofx OpenFX plugin (src/src/rvmofx.cpp):   *)
(* one plugin instance, its parameter store on the host side, its private  *)
(* InstanceData (cached configuration and TorchScript session) and the     *)
(* handlers the host calls on it: effectInstanceChanged,                   *)
(* effectEndInstanceChanged and effectRender; and a second instance of the *)
(* plugin in the same process.                                             *)
(*                                                                         *)
(* A tensor is abstracted to the identity of the forward pass output it    *)
(* is; a pixel buffer to its handle, component layout and bit depth.       *)
(***************************************************************************)
EXTENDS Integers, Sequences, FiniteSets, TLC

VARIABLES
    params,     \* host parameter store: value of each of the 8 parameters
    enabled,    \* host parameter store: kOfxParamPropEnabled of the 4 dependent controls
    connected,  \* host: kOfxImageClipPropConnected of each clip
    priv,       \* InstanceData "Cached values"
    torch,      \* InstanceData::_torch
    rnHint,     \* history, recorded in the ratio specification: per hidden-state slot, the downsample_ratio hint of the forward pass that produced it
    stale,      \* history: per hidden-state slot, "an invalidating edit came after it was stored"
    jitLoaded, \* history: torch::jit::load completed since the last invalidating edit
    loadOK,     \* history: a load step has succeeded since the last invalidating edit
    last,       \* observation of the last handler call
    peer        \* a second instance: its parameter store, cached values and session

vars == <<params, enabled, connected, priv, torch, rnHint, stale, jitLoaded, loadOK, last, peer>>

-----------------------------------------------------------------------------
(* Bounds *)

MaxTime == 2
MaxRatio == 1
ShortOutputs == 3

Times == 0..MaxTime
Ratios == 0..MaxRatio

-----------------------------------------------------------------------------
(* Enumerations of the source *)

DEVICE_CPU == "DEVICE_CPU"
DEVICE_CUDA == "DEVICE_CUDA"
Devices == {DEVICE_CPU, DEVICE_CUDA}

MODEL_MOBILENETV3 == "MODEL_MOBILENETV3"
MODEL_RESNET50 == "MODEL_RESNET50"
MODEL_CUSTOM == "MODEL_CUSTOM"
Models == {MODEL_MOBILENETV3, MODEL_RESNET50, MODEL_CUSTOM}

MODEL_PRECISION_FLOAT16 == "MODEL_PRECISION_FLOAT16"
MODEL_PRECISION_FLOAT32 == "MODEL_PRECISION_FLOAT32"
Precisions == {MODEL_PRECISION_FLOAT16, MODEL_PRECISION_FLOAT32}

OUTPUT_RGBA == "OUTPUT_RGBA"
OUTPUT_ALPHA == "OUTPUT_ALPHA"
OutputTypes == {OUTPUT_RGBA, OUTPUT_ALPHA}

COLOR_SRC_INPUT == "COLOR_SRC_INPUT"
COLOR_SRC_MODEL == "COLOR_SRC_MODEL"
ColorSources == {COLOR_SRC_INPUT, COLOR_SRC_MODEL}

\* The custom model path: empty, or the path of some file.
ModelFiles == {"", "custom.torchscript"}

ParamNames == {"device", "model", "modelFile", "modelPrecision",
               "downsampleRatio", "outputType", "colorSource", "postmultiplyAlpha"}

ClipNames == {"Output", "Input", "GarbageMatte", "SolidMatte"}

ParamDomain(name) ==
    CASE name = "device"            -> Devices
      [] name = "model"             -> Models
      [] name = "modelFile"         -> ModelFiles
      [] name = "modelPrecision"    -> Precisions
      [] name = "downsampleRatio"   -> Ratios
      [] name = "outputType"        -> OutputTypes
      [] name = "colorSource"       -> ColorSources
      [] name = "postmultiplyAlpha" -> BOOLEAN

kOfxChangeUserEdited == "OfxChangeUserEdited"
kOfxChangePluginEdited == "OfxChangePluginEdited"
ChangeReasons == {kOfxChangeUserEdited, kOfxChangePluginEdited}

kOfxTypeClip == "OfxTypeClip"
kOfxTypeParameter == "OfxTypeParameter"

kOfxStatOK == "kOfxStatOK"
kOfxStatFailed == "kOfxStatFailed"
kOfxStatReplyDefault == "kOfxStatReplyDefault"
kOfxStatErrUnknown == "kOfxStatErrUnknown"
kOfxStatErrMemory == "kOfxStatErrMemory"

\* Component layouts and bit depths of a host image; "Other" is any tag the
\* plugin does not recognise.
Components == {"RGBA", "RGB", "Alpha", "Other"}
PixelDepths == {"Byte", "Short", "Half", "Float", "Other"}

-----------------------------------------------------------------------------
(* Tensors, hidden state, the not-a-number time *)

\* rn_time is an OfxTime (double); nan("") is the "no history" sentinel.
NaN == -1

\* IEEE comparison: a NaN operand never compares equal.
TimeEq(a, b) == a # NaN /\ b # NaN /\ a = b

\* rn_time + 1.0: NaN + 1.0 is NaN.
TimePlusOne(a) == IF a = NaN THEN NaN ELSE a + 1

\* torch::Tensor(): the undefined tensor.
NoTensor == [t |-> NaN, pos |-> 0]

\* Output number pos (0-based) of the forward pass run for time t.
OutTensor(t, pos) == [t |-> t, pos |-> pos]

defined(x) == x # NoTensor

NoHistory == [i \in 1..4 |-> NoTensor]

\* Some hidden-state tensor is defined.
HistoryPresent(tc) == \E i \in 1..4 : defined(tc.rn[i])

\* torch::jit::script::Module(): no model loaded.
NoModel == [file |-> "none", device |-> "none"]

-----------------------------------------------------------------------------
(* Helpers *)

\* Mutant: the precision is not forced when the device is the CPU.
updateParamsValidity_NoForce(p, en) ==
    LET en1 == [en EXCEPT !.modelPrecision = (p.device = DEVICE_CUDA)]
        en2 == [en1 EXCEPT !.modelFile = (p.model = MODEL_CUSTOM)]
        en3 == [en2 EXCEPT !.colorSource = (p.outputType = OUTPUT_RGBA),
                           !.postmultiplyAlpha = (p.outputType = OUTPUT_RGBA)]
    IN  [params |-> p, enabled |-> en3]

\* updateParamsValidity: returns the parameter store (values and enabled
\* flags) after the dependency rules have been applied.
updateParamsValidity(p, en) ==
    LET p1  == IF p.device = DEVICE_CPU
               THEN [p EXCEPT !.modelPrecision = MODEL_PRECISION_FLOAT32]
               ELSE p
        en1 == [en EXCEPT !.modelPrecision = (p.device = DEVICE_CUDA)]
        en2 == [en1 EXCEPT !.modelFile = (p1.model = MODEL_CUSTOM)]
        en3 == [en2 EXCEPT !.colorSource = (p1.outputType = OUTPUT_RGBA),
                           !.postmultiplyAlpha = (p1.outputType = OUTPUT_RGBA)]
    IN  [params |-> p1, enabled |-> en3]

NULL == "NULL"

\* getModelFilename: the path built from the model selector, the precision
\* and the custom path; NULL when the custom path is empty.
getModelFilename(p) ==
    LET fp == IF p.modelPrecision = MODEL_PRECISION_FLOAT16 THEN "16" ELSE "32"
    IN  CASE p.model = MODEL_MOBILENETV3 -> "rvm_mobilenetv3_fp" \o fp \o ".torchscript"
          [] p.model = MODEL_RESNET50    -> "rvm_resnet50_fp" \o fp \o ".torchscript"
          [] p.model = MODEL_CUSTOM      -> IF p.modelFile = "" THEN NULL ELSE p.modelFile

\* Mutant: the loop stops after the first tensor.
modelClearHistory_FirstOnly(tc) ==
    IF tc.rn_time = NaN
    THEN tc
    ELSE [tc EXCEPT !.rn_time = NaN, !.rn[1] = NoTensor]

\* Mutant: only the time is reset, the tensors stay.
modelClearHistory_TimeOnly(tc) == [tc EXCEPT !.rn_time = NaN]

\* modelClearHistory: no-op when rn_time is NaN, else resets rn_time and
\* the four rn tensors.
modelClearHistory(tc) ==
    IF tc.rn_time = NaN
    THEN tc
    ELSE [tc EXCEPT !.rn_time = NaN, !.rn = NoHistory]

\* Mutant: the ready check is missing, every call loads.
modelSetup_AlwaysLoad(tc, p, outcome) ==
    LET t1 == [tc EXCEPT
                 !.device = IF p.device = DEVICE_CPU THEN "kCPU" ELSE "kCUDA",
                 !.type   = IF p.modelPrecision = MODEL_PRECISION_FLOAT16
                            THEN "kFloat16" ELSE "kFloat32"]
        model_file == getModelFilename(p)
        t3 == [t1 EXCEPT !.model = [file |-> model_file, device |-> t1.device]]
    IN  IF model_file = NULL \/ outcome # "ok"
        THEN [torch |-> [t1 EXCEPT !.ready = FALSE], status |-> kOfxStatFailed,
              tried |-> TRUE, jitLoad |-> FALSE]
        ELSE [torch |-> [modelClearHistory(t3) EXCEPT !.ready = TRUE],
              status |-> kOfxStatOK, tried |-> TRUE, jitLoad |-> TRUE]

\* Mutant: the recursive state is not reset after a load.
modelSetup_KeepHistory(tc, p, outcome) ==
    LET t1 == [tc EXCEPT
                 !.device = IF p.device = DEVICE_CPU THEN "kCPU" ELSE "kCUDA",
                 !.type   = IF p.modelPrecision = MODEL_PRECISION_FLOAT16
                            THEN "kFloat16" ELSE "kFloat32"]
        model_file == getModelFilename(p)
        t3 == [t1 EXCEPT !.model = [file |-> model_file, device |-> t1.device]]
    IN  IF tc.ready
        THEN [torch |-> tc, status |-> kOfxStatOK, tried |-> FALSE, jitLoad |-> FALSE]
        ELSE IF model_file = NULL \/ outcome # "ok"
        THEN [torch |-> t1, status |-> kOfxStatFailed, tried |-> TRUE, jitLoad |-> FALSE]
        ELSE [torch |-> [t3 EXCEPT !.ready = TRUE],
              status |-> kOfxStatOK, tried |-> TRUE, jitLoad |-> TRUE]

\* Mutant: the session is marked ready before the load is known to succeed.
modelSetup_ReadyOnFailure(tc, p, outcome) ==
    LET t1 == [tc EXCEPT
                 !.device = IF p.device = DEVICE_CPU THEN "kCPU" ELSE "kCUDA",
                 !.type   = IF p.modelPrecision = MODEL_PRECISION_FLOAT16
                            THEN "kFloat16" ELSE "kFloat32",
                 !.ready  = TRUE]
        model_file == getModelFilename(p)
        t3 == [t1 EXCEPT !.model = [file |-> model_file, device |-> t1.device]]
    IN  IF tc.ready
        THEN [torch |-> tc, status |-> kOfxStatOK, tried |-> FALSE, jitLoad |-> FALSE]
        ELSE IF model_file = NULL \/ outcome # "ok"
        THEN [torch |-> t1, status |-> kOfxStatFailed, tried |-> TRUE, jitLoad |-> FALSE]
        ELSE [torch |-> modelClearHistory(t3),
              status |-> kOfxStatOK, tried |-> TRUE, jitLoad |-> TRUE]

\* What the try block of modelSetup can do: complete, or throw from
\* torch::jit::load, from Module::to or from torch::jit::freeze.
LoadOutcomes == {"ok", "loadThrows", "toThrows", "freezeThrows"}

\* modelSetup: returns the session, the status, whether the load step went
\* past the ready check (tried) and whether torch::jit::load completed (jitLoad).
modelSetup(tc, p, outcome) ==
    IF tc.ready
    THEN [torch |-> tc, status |-> kOfxStatOK, tried |-> FALSE, jitLoad |-> FALSE]
    ELSE
      LET t1 == [tc EXCEPT
                   !.device = IF p.device = DEVICE_CPU THEN "kCPU" ELSE "kCUDA",
                   !.type   = IF p.modelPrecision = MODEL_PRECISION_FLOAT16
                              THEN "kFloat16" ELSE "kFloat32"]
          model_file == getModelFilename(p)
          \* priv->torch.model = torch::jit::load(model_file): loaded on the CPU
          t2 == [t1 EXCEPT !.model = [file |-> model_file, device |-> "kCPU"]]
          \* priv->torch.model.to(priv->torch.device)
          t3 == [t2 EXCEPT !.model.device = t1.device]
      IN  IF model_file = NULL
          THEN [torch |-> t1, status |-> kOfxStatFailed, tried |-> TRUE, jitLoad |-> FALSE]
          ELSE CASE outcome = "loadThrows" ->
                      [torch |-> t1, status |-> kOfxStatFailed, tried |-> TRUE, jitLoad |-> FALSE]
                 [] outcome = "toThrows" ->
                      [torch |-> t2, status |-> kOfxStatFailed, tried |-> TRUE, jitLoad |-> TRUE]
                 [] outcome = "freezeThrows" ->
                      [torch |-> t3, status |-> kOfxStatFailed, tried |-> TRUE, jitLoad |-> TRUE]
                 [] OTHER ->
                      [torch |-> [modelClearHistory(t3) EXCEPT !.ready = TRUE],
                       status |-> kOfxStatOK, tried |-> TRUE, jitLoad |-> TRUE]

-----------------------------------------------------------------------------
(* Render *)

\* Image handles: the two the host hands out in a render call, and the value
\* an ImageInfo::h holds when no successful clipGetImage wrote it (the struct
\* is an uninitialised local): NULL or any non-null bit pattern.
hOut == "hOut"
hIn == "hIn"
hGarbage == "hGarbage"
IndeterminateHandles == {NULL, hGarbage}

Min(a, b) == IF a < b THEN a ELSE b
Max(a, b) == IF a > b THEN a ELSE b

\* imageToTensor: an undefined tensor for an unrecognised layout or depth,
\* else a tensor of nc channels; the device/type conversion may throw.
imageToTensor(components, pixelDepth, throws) ==
    LET nc == CASE components = "RGBA"  -> 4
                [] components = "RGB"   -> 3
                [] components = "Alpha" -> 1
                [] OTHER                -> 0
    IN  IF nc = 0 THEN [res |-> "undefined", nc |-> 0]
        ELSE IF pixelDepth \notin {"Byte", "Short", "Half", "Float"}
             THEN [res |-> "undefined", nc |-> 0]
        ELSE IF throws THEN [res |-> "threw", nc |-> 0]
        ELSE [res |-> "defined", nc |-> nc]

\* tensorToImage: returns silently for an unrecognised layout or depth;
\* t.data_ptr<float>() checks the element type and throws unless the tensor
\* was cast to kFloat32; else the rows are copied into the image.
tensorToImage(components, pixelDepth) ==
    IF components \notin {"RGBA", "RGB", "Alpha"} THEN "noop"
    ELSE IF pixelDepth \notin {"Byte", "Short", "Half", "Float"} THEN "noop"
    ELSE IF pixelDepth # "Float" THEN "threw"
    ELSE "wrote"

\* The content of a tensor, for the post-processing: the sequence of its
\* channels (dimension 1), a channel being the product of the planes it was
\* multiplied from, each named by the tensor it comes from and its index.
Plane(src, k) == <<[src |-> src, k |-> k]>>

\* The tensor imageToTensor makes of an image of nc components.
InputTensor(nc) == [k \in 1..nc |-> Plane("in", k)]

\* outputs.get(0) and outputs.get(1) of a Robust Video Matting model: the
\* foreground, 3 channels, and the alpha, 1 channel.
fgr == [k \in 1..3 |-> Plane("fgr", k)]
pha == <<Plane("pha", 1)>>

\* t.narrow(1, start, length)
narrow(t, start, length) == SubSeq(t, start + 1, start + length)

\* t.repeat({1, n, 1, 1})
repeat(t, n) == [k \in 1..(n * Len(t)) |-> t[((k - 1) % Len(t)) + 1]]

\* a *= b, element-wise on tensors of the same shape
mul(a, b) == [k \in 1..Len(a) |-> a[k] \o b[k]]

\* torch::cat({a, b}, 1)
cat(a, b) == a \o b

\* The unrecognised output type: a value of priv->outputType that is none of
\* the enumerators.
OUTPUT_UNKNOWN == "OUTPUT_UNKNOWN"

\* Mutant: the foreground is the model's whatever the color source.
postProcess_ModelColor(pv, inputTensor, outComponents) ==
    CASE pv.outputType = OUTPUT_RGBA ->
            cat(IF pv.postmultiplyAlpha THEN mul(fgr, repeat(pha, 3)) ELSE fgr, pha)
      [] pv.outputType = OUTPUT_ALPHA ->
            (CASE outComponents = "RGBA"  -> repeat(pha, 4)
               [] outComponents = "RGB"   -> repeat(pha, 3)
               [] outComponents = "Alpha" -> pha
               [] OTHER                   -> <<>>)
      [] OTHER -> <<>>

\* Mutant: in alpha mode the alpha is written as it is, one channel.
postProcess_NoRepeat(pv, inputTensor, outComponents) ==
    CASE pv.outputType = OUTPUT_RGBA ->
            LET fgr0 == IF pv.colorSource = COLOR_SRC_INPUT THEN inputTensor ELSE fgr
                fgr1 == IF pv.postmultiplyAlpha THEN mul(fgr0, repeat(pha, 3)) ELSE fgr0
            IN  cat(fgr1, pha)
      [] pv.outputType = OUTPUT_ALPHA ->
            (CASE outComponents \in {"RGBA", "RGB", "Alpha"} -> pha
               [] OTHER -> <<>>)
      [] OTHER -> <<>>

\* "Post process of output tensor depending on options": outputTensor, or
\* <<>> where the code throws NoImageEx.
postProcess(pv, inputTensor, outComponents) ==
    CASE pv.outputType = OUTPUT_RGBA ->
            LET fgr0 == IF pv.colorSource = COLOR_SRC_INPUT THEN inputTensor ELSE fgr
                fgr1 == IF pv.postmultiplyAlpha THEN mul(fgr0, repeat(pha, 3)) ELSE fgr0
            IN  cat(fgr1, pha)
      [] pv.outputType = OUTPUT_ALPHA ->
            (CASE outComponents = "RGBA"  -> repeat(pha, 4)
               [] outComponents = "RGB"   -> repeat(pha, 3)
               [] outComponents = "Alpha" -> pha
               [] OTHER                   -> <<>>)
      [] OTHER -> <<>>

\* The switch on priv->outputType: the channel count of outputTensor, or 0
\* where the code throws NoImageEx.
compositeChannels(pv, outComponents) ==
    CASE pv.outputType = OUTPUT_RGBA  -> 4
      [] pv.outputType = OUTPUT_ALPHA ->
            (CASE outComponents = "RGBA"  -> 4
               [] outComponents = "RGB"   -> 3
               [] outComponents = "Alpha" -> 1
               [] OTHER                   -> 0)
      [] OTHER -> 0

\* Mutant: the re-render of the last-used time is not recognised.
useHistory_NextOnly(tc, time) ==
    /\ defined(tc.rn[1])
    /\ TimeEq(time, TimePlusOne(tc.rn_time))

\* The test that selects the forward call with the recursive states.
useHistory(tc, time) ==
    /\ defined(tc.rn[1])
    /\ (TimeEq(time, TimePlusOne(tc.rn_time)) \/ TimeEq(time, tc.rn_time))

\* The number of tensors the forward pass of a Robust Video Matting model
\* returns (fgr, pha and four recursive states), and the sizes of output
\* list the model explores: that one, and a custom model returning fewer.
FullOutputs == 6
OutputCounts == {ShortOutputs, FullOutputs}

\* The descriptor of no image.
NoImage ==
    [components |-> "none", pixelDepth |-> "none", w |-> 0, h |-> 0,
     x1 |-> 0, y1 |-> 0, pad |-> 0]

\* The observation of a call that did nothing observable.
NoObs ==
    [op |-> "none", status |-> kOfxStatOK, time |-> NaN, path |-> "none",
     reason |-> "none", cleared |-> FALSE, had |-> 0, tried |-> FALSE, jitLoad |-> FALSE,
     acquired |-> {}, released |-> <<>>,
     fwd |-> "none", fwdDone |-> FALSE, given |-> <<>>, hint |-> 0,
     outComp |-> "none", out |-> <<>>,
     desc |-> NoImage, src |-> <<>>, dst |-> <<>>,
     stored |-> 0, abortQueried |-> FALSE, aborting |-> FALSE, wrote |-> FALSE,
     suppliedStale |-> FALSE, droppedStale |-> FALSE]

\* A render call in progress: the session, where control is ("run": in the
\* try block; "noImage": NoImageEx thrown; "thrown": another exception
\* thrown; "returned": effectRender has returned), the function's status
\* variable, the two ImageInfo handles, the channel count of inputTensor and
\* the observation so far.

\* "Prepare the model": modelSetup, and the return on its failure.
prepareModel(tc, p, e) ==
    LET ms == modelSetup(tc, p, e.load)
    IN  [torch |-> ms.torch,
         phase |-> IF ms.status # kOfxStatOK THEN "returned" ELSE "run",
         status |-> ms.status,
         outH |-> e.outH0, inH |-> e.inH0, nc |-> 0, inT |-> <<>>,
         obs |-> [NoObs EXCEPT !.op = "render", !.tried = ms.tried, !.jitLoad = ms.jitLoad,
                               !.path = IF ms.status # kOfxStatOK THEN "loadFailed" ELSE "none",
                               !.status = ms.status]]

\* fillImageInfos: the handle in img.h afterwards, and whether it is one the
\* host handed out; on failure img.h keeps the value it had.
fillImageInfos(got, h0, handle) ==
    IF got THEN [h |-> handle, ok |-> TRUE] ELSE [h |-> h0, ok |-> FALSE]

\* Mutant: a missing image invalidates the recursive state.
getImages_ClearsHistory(c, e) ==
    IF c.phase # "run" THEN c
    ELSE IF ~e.outGet \/ ~e.inGet
         THEN [c EXCEPT !.phase = "noImage", !.torch = modelClearHistory(c.torch),
                        !.obs.path = IF ~e.outGet THEN "noOutputImage" ELSE "noInputImage",
                        !.obs.acquired = IF ~e.outGet THEN {} ELSE {hOut}]
         ELSE [c EXCEPT !.outH = hOut, !.inH = hIn, !.obs.acquired = {hOut, hIn},
                        !.obs.outComp = e.outComp]

\* "Get images": the output image, then the input image; NoImageEx on the
\* first that is not obtained.
getImages(c, e) ==
    IF c.phase # "run" THEN c
    ELSE LET o == fillImageInfos(e.outGet, c.outH, hOut)
             i == fillImageInfos(e.inGet, c.inH, hIn)
         IN  IF ~o.ok
             THEN [c EXCEPT !.phase = "noImage", !.outH = o.h, !.obs.path = "noOutputImage"]
             ELSE IF ~i.ok
             THEN [c EXCEPT !.phase = "noImage", !.outH = o.h, !.inH = i.h,
                            !.obs.acquired = {o.h}, !.obs.path = "noInputImage"]
             ELSE [c EXCEPT !.outH = o.h, !.inH = i.h, !.obs.acquired = {o.h, i.h},
                            !.obs.outComp = e.outComp]

\* Mutant: an input image that is not understood marks the session not ready.
inputToTensor_Unready(c, e) ==
    IF c.phase # "run" THEN c
    ELSE LET it == imageToTensor(e.inComp, e.inDepth, e.convThrows)
         IN  IF it.res = "threw"
             THEN [c EXCEPT !.phase = "thrown", !.obs.path = "convertThrew"]
             ELSE IF it.res = "undefined"
             THEN [c EXCEPT !.phase = "noImage", !.torch.ready = FALSE,
                            !.obs.path = "inputUnrecognised"]
             ELSE IF it.nc \notin {3, 4}
             THEN [c EXCEPT !.phase = "noImage", !.obs.path = "inputChannels"]
             ELSE [c EXCEPT !.nc = 3,
                            !.inT = IF it.nc = 4 THEN narrow(InputTensor(it.nc), 0, 3)
                                                 ELSE InputTensor(it.nc)]

\* "OFX Image -> Input tensor": NoImageEx for an undefined tensor and for a
\* channel count other than 3 or 4.
inputToTensor(c, e) ==
    IF c.phase # "run" THEN c
    ELSE LET it == imageToTensor(e.inComp, e.inDepth, e.convThrows)
         IN  IF it.res = "threw"
             THEN [c EXCEPT !.phase = "thrown", !.obs.path = "convertThrew"]
             ELSE IF it.res = "undefined"
             THEN [c EXCEPT !.phase = "noImage", !.obs.path = "inputUnrecognised"]
             ELSE IF it.nc \notin {3, 4}
             THEN [c EXCEPT !.phase = "noImage", !.obs.path = "inputChannels"]
             ELSE [c EXCEPT !.nc = 3,
                            !.inT = IF it.nc = 4 THEN narrow(InputTensor(it.nc), 0, 3)
                                                 ELSE InputTensor(it.nc)]

\* "Run the model": the downsample_ratio hint and the forward call, with the
\* four recursive states or with the input tensor only; forward may throw.
runModel(c, pv, time, e) ==
    IF c.phase # "run" THEN c
    ELSE LET warm == useHistory(c.torch, time)
             c1 == [c EXCEPT !.obs.time = time,
                             !.obs.hint = pv.downsampleRatio,
                             !.obs.fwd = IF warm THEN "warm" ELSE "cold",
                             !.obs.given = IF warm THEN c.torch.rn ELSE <<>>]
         IN  IF e.fwdThrows
             THEN [c1 EXCEPT !.phase = "thrown", !.obs.path = "forwardThrew"]
             ELSE [c1 EXCEPT !.obs.fwdDone = TRUE]

\* "Recursive states for next run": rn_time, then rn[0..3] from outputs 2..5,
\* then fgr and pha from outputs 0 and 1.  outputs.get(k) throws for a k the
\* list does not have, so only the slots before the first missing output
\* are assigned.
storeOutputs(c, time, e) ==
    IF c.phase # "run" THEN c
    ELSE LET stored == Min(4, Max(0, e.nout - 2))
             c1 == [c EXCEPT !.torch.rn_time = time,
                             !.torch.rn = [i \in 1..4 |-> IF i <= stored
                                                            THEN OutTensor(time, i + 1)
                                                            ELSE c.torch.rn[i]],
                             !.obs.stored = stored]
         IN  IF e.nout < FullOutputs
             THEN [c1 EXCEPT !.phase = "thrown", !.obs.path = "outputsMissing"]
             ELSE c1

\* "Post process of output tensor depending on options".
composite(c, pv, e) ==
    IF c.phase # "run" THEN c
    ELSE IF compositeChannels(pv, e.outComp) = 0
         THEN [c EXCEPT !.phase = "noImage", !.obs.path = "compositeFailed"]
         ELSE [c EXCEPT !.obs.out = postProcess(pv, c.inT, e.outComp)]

\* "Output tensor -> OFX Image".
writeOutput(c, e) ==
    IF c.phase # "run" THEN c
    ELSE LET wr == tensorToImage(e.outComp, e.outDepth)
         IN  IF wr = "threw"
             THEN [c EXCEPT !.phase = "thrown", !.obs.path = "writeThrew"]
             ELSE [c EXCEPT !.obs.wrote = (wr = "wrote"),
                            !.obs.path = IF wr = "wrote" THEN "written" ELSE "writeSkipped"]

\* Mutant: the host's answer to abort() is not looked at.
abortStatus_Ignored(status, aborting) == status

\* The status after catch (NoImageEx &), from the host's answer to abort().
abortStatus(status, aborting) ==
    IF ~aborting THEN kOfxStatFailed ELSE status

\* catch (NoImageEx &): "Missing a required clip, so abort".
catchNoImage(c, e) ==
    IF c.phase # "noImage" THEN c
    ELSE [c EXCEPT !.phase = "run",
                   !.status = abortStatus(c.status, e.abort),
                   !.obs.abortQueried = TRUE,
                   !.obs.aborting = e.abort]

\* "Cleanup": the handles passed to clipReleaseImage, in order.
cleanup(outH, inH) ==
    (IF outH # NULL THEN <<outH>> ELSE <<>>) \o (IF inH # NULL THEN <<inH>> ELSE <<>>)

\* The return of effectRender into ofxMain: after the cleanup, or by an
\* exception the try block does not catch, which ofxMain turns into a status.
returnToHost(c, e) ==
    CASE c.phase = "run" ->
            [c EXCEPT !.phase = "returned", !.obs.status = c.status,
                      !.obs.released = cleanup(c.outH, c.inH)]
      [] c.phase = "thrown" ->
            [c EXCEPT !.phase = "returned",
                      !.obs.status = IF e.badAlloc THEN kOfxStatErrMemory
                                                   ELSE kOfxStatErrUnknown]
      [] OTHER -> c

\* effectRender, as called through ofxMain: tc, pv, p are the session, the
\* cached values and the parameter store at the call, time the requested
\* time and e what the host and libtorch do during the call.
effectRender(tc, pv, p, time, e) ==
    returnToHost(
      catchNoImage(
        writeOutput(
          composite(
            storeOutputs(
              runModel(
                inputToTensor(
                  getImages(
                    prepareModel(tc, p, e), e), e), pv, time, e), time, e), pv, e), e), e), e)

\* What the host and libtorch do during one render call.  A field is read
\* only when the call gets as far as the step it belongs to, so the
\* environments vary one step's fields and keep the steps before it successful.
EnvOK ==
    [load |-> "ok", outGet |-> TRUE, inGet |-> TRUE, outH0 |-> NULL, inH0 |-> NULL,
     inComp |-> "RGB", inDepth |-> "Float", convThrows |-> FALSE, fwdThrows |-> FALSE,
     nout |-> FullOutputs, outComp |-> "RGBA", outDepth |-> "Float", abort |-> FALSE,
     badAlloc |-> FALSE]

LoadEnvs == {[EnvOK EXCEPT !.load = o] : o \in LoadOutcomes}

AcquireEnvs ==
    {[EnvOK EXCEPT !.outGet = g[1], !.inGet = g[2], !.outH0 = h, !.inH0 = k, !.abort = a] :
        g \in {<<FALSE, TRUE>>, <<TRUE, FALSE>>},
        h \in IndeterminateHandles, k \in IndeterminateHandles, a \in BOOLEAN}

InputEnvs ==
    {[EnvOK EXCEPT !.inComp = c, !.abort = a] : c \in Components, a \in BOOLEAN}
    \cup {[EnvOK EXCEPT !.inDepth = d, !.abort = a] : d \in PixelDepths, a \in BOOLEAN}

ConvertThrowEnvs == {[EnvOK EXCEPT !.convThrows = TRUE, !.badAlloc = b] : b \in BOOLEAN}

ForwardThrowEnvs == {[EnvOK EXCEPT !.fwdThrows = TRUE]}

OutputEnvs ==
    {[EnvOK EXCEPT !.nout = n] : n \in OutputCounts}
    \cup {[EnvOK EXCEPT !.outComp = c] : c \in Components}
    \cup {[EnvOK EXCEPT !.outComp = "Other", !.abort = TRUE]}
    \cup {[EnvOK EXCEPT !.outDepth = d] : d \in PixelDepths}

\* The steps before the forward pass do not read the requested time: the
\* environments that vary them are explored at one time, the others at all.
EarlyEnvs == LoadEnvs \cup AcquireEnvs \cup InputEnvs \cup ConvertThrowEnvs
LateEnvs == ForwardThrowEnvs \cup OutputEnvs

RenderInputs ==
    {[time |-> 0, e |-> e] : e \in EarlyEnvs}
    \cup {[time |-> t, e |-> e] : t \in Times, e \in LateEnvs}

-----------------------------------------------------------------------------
(* Change notifications *)

ModelParams == {"device", "model", "modelPrecision", "modelFile"}

\* Mutant: the change reason is not looked at.
effectInstanceChanged_AnyReason(tc, pv, changeReason, typeChanged, objChanged, conn) ==
    LET isClip  == typeChanged = kOfxTypeClip
        isParam == typeChanged = kOfxTypeParameter
        ret(tcN, pvN, st) == [torch |-> tcN, priv |-> pvN, status |-> st]
    IN  IF isParam /\ objChanged \in ModelParams
        THEN ret([tc EXCEPT !.ready = FALSE], pv, kOfxStatOK)
        ELSE IF isParam /\ objChanged = "downsampleRatio"
        THEN ret(modelClearHistory(tc), pv, kOfxStatOK)
        ELSE IF isClip
        THEN IF objChanged # "Input"
             THEN ret(modelClearHistory(tc), pv, kOfxStatOK)
             ELSE IF objChanged # "GarbageMatte"
             THEN ret(tc, [pv EXCEPT !.hasGarbageMatte = conn], kOfxStatOK)
             ELSE IF objChanged = "SolidMatte"
             THEN ret(tc, [pv EXCEPT !.hasSolidMatte = conn], kOfxStatOK)
             ELSE ret(tc, pv, kOfxStatReplyDefault)
        ELSE ret(tc, pv, kOfxStatReplyDefault)

\* Mutant: an edit of a model parameter also invalidates the recursive state.
effectInstanceChanged_ModelEditClears(tc, pv, changeReason, typeChanged, objChanged, conn) ==
    LET isClip  == typeChanged = kOfxTypeClip
        isParam == typeChanged = kOfxTypeParameter
        ret(tcN, pvN, st) == [torch |-> tcN, priv |-> pvN, status |-> st]
    IN  IF changeReason # kOfxChangeUserEdited
        THEN ret(tc, pv, kOfxStatReplyDefault)
        ELSE IF isParam /\ objChanged \in ModelParams
        THEN ret([modelClearHistory(tc) EXCEPT !.ready = FALSE], pv, kOfxStatOK)
        ELSE IF isParam /\ objChanged = "downsampleRatio"
        THEN ret(modelClearHistory(tc), pv, kOfxStatOK)
        ELSE IF isClip
        THEN IF objChanged # "Input"
             THEN ret(modelClearHistory(tc), pv, kOfxStatOK)
             ELSE IF objChanged # "GarbageMatte"
             THEN ret(tc, [pv EXCEPT !.hasGarbageMatte = conn], kOfxStatOK)
             ELSE IF objChanged = "SolidMatte"
             THEN ret(tc, [pv EXCEPT !.hasSolidMatte = conn], kOfxStatOK)
             ELSE ret(tc, pv, kOfxStatReplyDefault)
        ELSE ret(tc, pv, kOfxStatReplyDefault)

\* effectInstanceChanged: returns the session, the cached values and the status.
\* conn is kOfxImageClipPropConnected of the clip named objChanged.
effectInstanceChanged(tc, pv, changeReason, typeChanged, objChanged, conn) ==
    LET isClip  == typeChanged = kOfxTypeClip
        isParam == typeChanged = kOfxTypeParameter
        ret(tcN, pvN, st) == [torch |-> tcN, priv |-> pvN, status |-> st]
    IN  IF changeReason # kOfxChangeUserEdited
        THEN ret(tc, pv, kOfxStatReplyDefault)
        ELSE IF isParam /\ objChanged \in ModelParams
        THEN ret([tc EXCEPT !.ready = FALSE], pv, kOfxStatOK)
        ELSE IF isParam /\ objChanged = "downsampleRatio"
        THEN ret(modelClearHistory(tc), pv, kOfxStatOK)
        ELSE IF isClip
        THEN \* strcmp() is non-zero when the names differ
             IF objChanged # "Input"
             THEN ret(modelClearHistory(tc), pv, kOfxStatOK)
             ELSE IF objChanged # "GarbageMatte"
             THEN ret(tc, [pv EXCEPT !.hasGarbageMatte = conn], kOfxStatOK)
             ELSE IF objChanged = "SolidMatte"
             THEN ret(tc, [pv EXCEPT !.hasSolidMatte = conn], kOfxStatOK)
             ELSE ret(tc, pv, kOfxStatReplyDefault)
        ELSE ret(tc, pv, kOfxStatReplyDefault)

\* Mutant: the cached values are refreshed at the close of a user batch only.
effectEndInstanceChanged_UserOnly(pv, p, en, changeReason) ==
    IF changeReason # kOfxChangeUserEdited
    THEN [params |-> p, enabled |-> en, priv |-> pv]
    ELSE LET u == updateParamsValidity(p, en)
         IN  [params |-> u.params, enabled |-> u.enabled,
              priv |-> [pv EXCEPT !.downsampleRatio = u.params.downsampleRatio,
                                  !.outputType = u.params.outputType,
                                  !.colorSource = u.params.colorSource,
                                  !.postmultiplyAlpha = u.params.postmultiplyAlpha]]

\* effectEndInstanceChanged: returns the parameter store and the cached values.
effectEndInstanceChanged(pv, p, en, changeReason) ==
    LET u == IF changeReason = kOfxChangeUserEdited
             THEN updateParamsValidity(p, en)
             ELSE [params |-> p, enabled |-> en]
    IN  [params |-> u.params, enabled |-> u.enabled,
         priv |-> [pv EXCEPT !.downsampleRatio = u.params.downsampleRatio,
                             !.outputType = u.params.outputType,
                             !.colorSource = u.params.colorSource,
                             !.postmultiplyAlpha = u.params.postmultiplyAlpha]]

-----------------------------------------------------------------------------
(* The state machine *)

\* The parameter store as effectDescribeInContext declares it.
DefaultParams ==
    [device |-> DEVICE_CPU, model |-> MODEL_MOBILENETV3, modelFile |-> "",
     modelPrecision |-> MODEL_PRECISION_FLOAT32, downsampleRatio |-> 0,
     outputType |-> OUTPUT_RGBA, colorSource |-> COLOR_SRC_MODEL,
     postmultiplyAlpha |-> FALSE]

DescribedEnabled ==
    [modelPrecision |-> FALSE, modelFile |-> FALSE,
     colorSource |-> TRUE, postmultiplyAlpha |-> TRUE]

\* new InstanceData(): the cached values are zero-initialised.
NewPriv ==
    [hasGarbageMatte |-> FALSE, hasSolidMatte |-> FALSE, downsampleRatio |-> 0,
     outputType |-> OUTPUT_RGBA, colorSource |-> COLOR_SRC_INPUT,
     postmultiplyAlpha |-> FALSE]

\* _torch(): device kCPU, rn_time NaN; ready zero-initialised, no model, no tensors.
NewTorch ==
    [ready |-> FALSE, device |-> "kCPU", type |-> "unset", model |-> NoModel,
     rn_time |-> NaN, rn |-> NoHistory]

\* The second instance, created on the declared defaults.
NewPeer ==
    [params |-> updateParamsValidity(DefaultParams, DescribedEnabled).params,
     priv |-> NewPriv, torch |-> NewTorch]

\* The parameter stores an instance is created on: the declared defaults, or
\* those of a saved project that selects a custom model and names no file.
InitParamStores ==
    {DefaultParams, [DefaultParams EXCEPT !.model = MODEL_CUSTOM]}

\* The hints the stored hidden state was produced with.  NoHints: the hints
\* are not recorded in this behaviour; FirstHints: they are, and no slot
\* holds a tensor yet.
NoHints == <<>>
FirstHints == [i \in 1..4 |-> {}]

\* The hints after a render call that returned r: those of the slots the
\* call assigned are the hint of its forward pass.
hintsAfterRender(h, r) ==
    IF h = NoHints THEN h
    ELSE [i \in 1..4 |->
            IF ~defined(r.torch.rn[i]) THEN {}
            ELSE IF r.obs.fwdDone /\ i <= r.obs.stored THEN {r.obs.hint}
            ELSE h[i]]

\* The hints after a notification that left the session tc.
hintsAfterClear(h, tc) ==
    IF h = NoHints THEN h
    ELSE [i \in 1..4 |-> IF defined(tc.rn[i]) THEN h[i] ELSE {}]

\* effectCreateInstance.
Init ==
    \E p0 \in InitParamStores :
    LET u == updateParamsValidity(p0, DescribedEnabled)
    IN  /\ params = u.params
        /\ enabled = u.enabled
        /\ connected = [c \in ClipNames |-> c \in {"Output", "Input"}]
        /\ priv = NewPriv
        /\ torch = NewTorch
        /\ rnHint = NoHints
        /\ stale = [i \in 1..4 |-> FALSE]
        /\ jitLoaded = FALSE
        /\ loadOK = FALSE
        /\ last = [NoObs EXCEPT !.op = "create"]
        /\ peer = NewPeer

\* The host calls kOfxImageEffectActionRender for some time.
Render(inputs) ==
    \E in \in inputs :
        \E r \in {effectRender(torch, priv, params, in.time, in.e)} :
            /\ torch' = r.torch
            /\ rnHint' = hintsAfterRender(rnHint, r)
            /\ stale' = [i \in 1..4 |->
                            IF ~defined(r.torch.rn[i]) THEN FALSE
                            ELSE IF r.obs.fwdDone /\ i <= r.obs.stored THEN FALSE
                            ELSE stale[i]]
            /\ jitLoaded' = (jitLoaded \/ r.obs.jitLoad)
            /\ loadOK' = (loadOK \/ (r.obs.tried /\ r.obs.path # "loadFailed"))
            /\ last' = [r.obs EXCEPT
                          !.suppliedStale =
                              (r.obs.fwd = "warm" /\
                               \E i \in 1..4 : defined(r.obs.given[i]) /\ stale[i]),
                          !.droppedStale =
                              (r.obs.fwd = "cold" /\ useHistory(torch, in.time) /\
                               \E i \in 1..4 : stale[i])]
            /\ UNCHANGED <<params, enabled, connected, priv, peer>>

\* The value of a parameter changes in the host, for the given reason, and the
\* host calls kOfxActionInstanceChanged for it.
ParamChanged(names) ==
    \E changeReason \in ChangeReasons, objChanged \in names :
      \E v \in ParamDomain(objChanged) \ {params[objChanged]} :
        LET r == effectInstanceChanged(torch, priv, changeReason,
                                       kOfxTypeParameter, objChanged, FALSE)
            invalidating == changeReason = kOfxChangeUserEdited /\ objChanged \in ModelParams
        IN  /\ params' = [params EXCEPT ![objChanged] = v]
            /\ torch' = r.torch
            /\ priv' = r.priv
            /\ rnHint' = hintsAfterClear(rnHint, r.torch)
            /\ stale' = IF invalidating THEN [i \in 1..4 |-> defined(torch.rn[i])] ELSE
                        [i \in 1..4 |-> stale[i] /\ defined(r.torch.rn[i])]
            /\ jitLoaded' = IF invalidating THEN FALSE ELSE jitLoaded
            /\ loadOK' = (loadOK /\ ~invalidating)
            /\ last' = [NoObs EXCEPT !.op = "changed", !.status = r.status,
                                       !.path = objChanged, !.reason = changeReason,
                                       !.cleared = (HistoryPresent(torch) /\
                                                    ~HistoryPresent(r.torch)),
                                       !.had = Cardinality({i \in 1..4 :
                                                               defined(torch.rn[i])})]
            /\ UNCHANGED <<enabled, connected, peer>>

\* A clip is connected or disconnected in the host, for the given reason, and
\* the host calls kOfxActionInstanceChanged for it.
ClipChanged(names) ==
    \E changeReason \in ChangeReasons, objChanged \in names :
        LET conn == ~connected[objChanged]
            r == effectInstanceChanged(torch, priv, changeReason,
                                       kOfxTypeClip, objChanged, conn)
        IN  /\ connected' = [connected EXCEPT ![objChanged] = conn]
            /\ torch' = r.torch
            /\ priv' = r.priv
            /\ rnHint' = hintsAfterClear(rnHint, r.torch)
            /\ stale' = [i \in 1..4 |-> stale[i] /\ defined(r.torch.rn[i])]
            /\ last' = [NoObs EXCEPT !.op = "changed", !.status = r.status,
                                       !.path = objChanged, !.reason = changeReason,
                                       !.cleared = (HistoryPresent(torch) /\
                                                    ~HistoryPresent(r.torch)),
                                       !.had = Cardinality({i \in 1..4 :
                                                               defined(torch.rn[i])})]
            /\ UNCHANGED <<params, enabled, jitLoaded, loadOK, peer>>

\* The host calls kOfxActionEndInstanceChanged at the close of a batch.
EndInstanceChanged ==
    \E changeReason \in ChangeReasons :
        LET r == effectEndInstanceChanged(priv, params, enabled, changeReason)
        IN  /\ params' = r.params
            /\ enabled' = r.enabled
            /\ priv' = r.priv
            /\ last' = [NoObs EXCEPT !.op = "endChanged", !.path = changeReason,
                                       !.reason = changeReason]
            /\ UNCHANGED <<connected, torch, rnHint, stale, jitLoaded, loadOK, peer>>

\* The main specification: renders in every environment, interleaved with
\* edits of the downsample ratio and of the primary input clip.

Next ==
    \/ Render(RenderInputs)
    \/ ParamChanged({"downsampleRatio"})
    \/ ClipChanged({"Input"})
    \/ EndInstanceChanged

Spec == Init /\ [][Next]_vars

\* The load specification: renders whose load step may fail, interleaved with edits of the four parameters the model is
\* loaded from.
MaxLoadTime == 1
LoadTimes == 0..MaxLoadTime

LoadInputs ==
    {[time |-> 0, e |-> e] : e \in LoadEnvs}
    \cup {[time |-> t, e |-> EnvOK] : t \in LoadTimes}

NextLoad ==
    \/ Render(LoadInputs)
    \/ ParamChanged(ModelParams)
    \/ EndInstanceChanged

SpecLoad == Init /\ [][NextLoad]_vars

\* The user edits a parameter through its control, which the host lets them
\* do while the control is enabled, and the host calls
\* kOfxActionInstanceChanged for it.
UserEdit(names) ==
    \E objChanged \in names :
      /\ objChanged \in DOMAIN enabled => enabled[objChanged]
      /\ \E v \in ParamDomain(objChanged) \ {params[objChanged]} :
            LET r == effectInstanceChanged(torch, priv, kOfxChangeUserEdited,
                                           kOfxTypeParameter, objChanged, FALSE)
                invalidating == objChanged \in ModelParams
            IN  /\ params' = [params EXCEPT ![objChanged] = v]
                /\ torch' = r.torch
                /\ priv' = r.priv
                /\ rnHint' = hintsAfterClear(rnHint, r.torch)
                /\ stale' = IF invalidating THEN [i \in 1..4 |-> defined(torch.rn[i])] ELSE
                            [i \in 1..4 |-> stale[i] /\ defined(r.torch.rn[i])]
                /\ jitLoaded' = IF invalidating THEN FALSE ELSE jitLoaded
                /\ loadOK' = (loadOK /\ ~invalidating)
                /\ last' = [NoObs EXCEPT !.op = "changed", !.status = r.status,
                                           !.path = objChanged,
                                           !.reason = kOfxChangeUserEdited,
                                           !.cleared = (HistoryPresent(torch) /\
                                                        ~HistoryPresent(r.torch)),
                                           !.had = Cardinality({i \in 1..4 :
                                                                   defined(torch.rn[i])})]
                /\ UNCHANGED <<enabled, connected, peer>>

\* The user specification: renders whose load step may fail, interleaved
\* with edits by the user of the four parameters the model is loaded from and
\* with the close of the batches.
NextUser ==
    \/ Render(LoadInputs)
    \/ UserEdit(ModelParams)
    \/ EndInstanceChanged

SpecUser == Init /\ [][NextUser]_vars

\* The ratio specification: renders that succeed or whose forward pass
\* throws, interleaved with changes of the downsample ratio, by the user and
\* by the host or the plugin, and with the close of the batches; the hints
\* the hidden state was produced with are recorded.
InitRatio ==
    \E p0 \in InitParamStores :
    LET u == updateParamsValidity(p0, DescribedEnabled)
    IN  /\ params = u.params
        /\ enabled = u.enabled
        /\ connected = [c \in ClipNames |-> c \in {"Output", "Input"}]
        /\ priv = NewPriv
        /\ torch = NewTorch
        /\ rnHint = FirstHints
        /\ stale = [i \in 1..4 |-> FALSE]
        /\ jitLoaded = FALSE
        /\ loadOK = FALSE
        /\ last = [NoObs EXCEPT !.op = "create"]
        /\ peer = NewPeer

RatioInputs == {[time |-> t, e |-> e] : t \in Times, e \in {EnvOK} \cup ForwardThrowEnvs}

NextRatio ==
    \/ Render(RatioInputs)
    \/ ParamChanged({"downsampleRatio"})
    \/ EndInstanceChanged

SpecRatio == InitRatio /\ [][NextRatio]_vars

\* The clip specification: renders that succeed, interleaved with connections
\* and disconnections of every clip.
ClipInputs == {[time |-> t, e |-> EnvOK] : t \in Times}

NextClip ==
    \/ Render(ClipInputs)
    \/ ClipChanged(ClipNames)

SpecClip == Init /\ [][NextClip]_vars

\* The parameter specification: edits, by the user and by the host or the
\* plugin, of every parameter a dependency rule or a cached value reads (the
\* custom model path is read by the load only), and the close of the batches.
RuleParams == ParamNames \ {"modelFile"}

NextParams ==
    \/ ParamChanged(RuleParams)
    \/ EndInstanceChanged

SpecParams == Init /\ [][NextParams]_vars

\* The compositing specification: the post-processing is a function of the
\* cached values, the input tensor and the output image's layout; the
\* instance starts on any cached values, the unrecognised output type
\* included, and renders on input and output images of every layout.
CachedConfigs ==
    {[NewPriv EXCEPT !.outputType = o, !.colorSource = s, !.postmultiplyAlpha = m] :
        o \in OutputTypes \cup {OUTPUT_UNKNOWN}, s \in ColorSources, m \in BOOLEAN}

InitComposite ==
    \E p0 \in InitParamStores, pv0 \in CachedConfigs :
    LET u == updateParamsValidity(p0, DescribedEnabled)
    IN  /\ params = u.params
        /\ enabled = u.enabled
        /\ connected = [c \in ClipNames |-> c \in {"Output", "Input"}]
        /\ priv = pv0
        /\ torch = NewTorch
        /\ rnHint = NoHints
        /\ stale = [i \in 1..4 |-> FALSE]
        /\ jitLoaded = FALSE
        /\ loadOK = FALSE
        /\ last = [NoObs EXCEPT !.op = "create"]
        /\ peer = NewPeer

CompositeInputs ==
    {[time |-> t, e |-> [EnvOK EXCEPT !.inComp = i, !.outComp = o, !.abort = a]] :
        t \in Times, i \in {"RGB", "RGBA"}, o \in Components, a \in BOOLEAN}

NextComposite == Render(CompositeInputs)

SpecComposite == InitComposite /\ [][NextComposite]_vars

\* The notification specification: renders that succeed, interleaved with
\* changes, by the user and by the host or the plugin, of the parameters
\* the load does not read and of two clips.
NotifyParams == ParamNames \ ModelParams

NextNotify ==
    \/ Render(ClipInputs)
    \/ ParamChanged(NotifyParams)
    \/ ClipChanged({"Input", "GarbageMatte"})

SpecNotify == Init /\ [][NextNotify]_vars

-----------------------------------------------------------------------------
(* Pixel buffers *)

\* An image as ImageInfo describes it: layout and depth tags, the rectangle
\* (x1, y1, x1 + w, y1 + h) and the row stride.  The memory behind img.ptr
\* is a sequence of elements of the image's depth (vs bytes each); a row
\* takes the x1 elements the code skips, the w * nc elements of the
\* rectangle and pad elements of padding.
channels(components) ==
    CASE components = "RGBA"  -> 4
      [] components = "RGB"   -> 3
      [] components = "Alpha" -> 1
      [] OTHER                -> 0

\* img.rowBytes / vs
rowElements(d) == d.x1 + d.w * channels(d.components) + d.pad

\* (img.rowBytes * img.rect.y1 + vs * img.rect.x1) / vs
firstElement(d) == rowElements(d) * d.y1 + d.x1

memoryLength(d) == rowElements(d) * (d.y1 + d.h)

\* sf of imageToTensor is 1 / scale; sf of tensorToImage is scale.
scale(pixelDepth) ==
    CASE pixelDepth = "Byte"  -> 255
      [] pixelDepth = "Short" -> 32768
      [] OTHER                -> 1

\* imageToTensor on the memory mem: from_blob with sizes {h, w, nc} and
\* strides {rowBytes / vs, nc, 1}, the multiplication by sf (an element is
\* raw * num / den), permute({2, 0, 1}) and unsqueeze(0); the result is
\* indexed [1][c][y][x].
imageToTensorData(d, mem) ==
    LET nc == channels(d.components)
        blob == [y \in 1..d.h |-> [x \in 1..d.w |-> [c \in 1..nc |->
                    [raw |-> mem[firstElement(d) + (y - 1) * rowElements(d)
                                 + (x - 1) * nc + (c - 1) + 1],
                     num |-> 1, den |-> scale(d.pixelDepth)]]]]
    IN  <<[c \in 1..nc |-> [y \in 1..d.h |-> [x \in 1..d.w |-> blob[y][x][c]]]]>>

\* tensorToImage on the memory mem: squeeze(0), permute({1, 2, 0}), the
\* multiplication by sf, the cast to the image's element type (truncation
\* for the integer types), contiguous(); then data_ptr<float>(), which
\* throws unless the element type is kFloat32, and the memcpy of w * nc
\* elements per row, the source advancing by strides()[0], the destination
\* by rowBytes.  Returns the memory afterwards.
tensorToImageData(d, t, mem) ==
    LET nc == channels(d.components)
        hwc == [y \in 1..d.h |-> [x \in 1..d.w |-> [c \in 1..nc |-> t[1][c][y][x]]]]
        cast(v) == (v.raw * v.num * scale(d.pixelDepth)) \div v.den
        stride0 == d.w * nc
        flat == [k \in 1..(d.h * stride0) |->
                    cast(hwc[((k - 1) \div stride0) + 1]
                            [(((k - 1) % stride0) \div nc) + 1]
                            [((k - 1) % nc) + 1])]
        inRow(k, y) == /\ k > firstElement(d) + (y - 1) * rowElements(d)
                       /\ k <= firstElement(d) + (y - 1) * rowElements(d) + stride0
    IN  IF tensorToImage(d.components, d.pixelDepth) # "wrote"
        THEN mem
        ELSE [k \in 1..Len(mem) |->
                IF \E y \in 1..d.h : inRow(k, y)
                THEN LET y == CHOOSE yy \in 1..d.h : inRow(k, yy)
                     IN  flat[(y - 1) * stride0
                              + (k - firstElement(d) - (y - 1) * rowElements(d))]
                ELSE mem[k]]

\* The images of the round trip: every recognised layout and depth, small
\* rectangles, with and without an origin and row padding.
MaxSide == 2
MaxOrigin == 1
MaxPad == 1

Descriptors ==
    [components : {"RGBA", "RGB", "Alpha"}, pixelDepth : {"Byte", "Short", "Half", "Float"},
     w : 1..MaxSide, h : 1..MaxSide, x1 : 0..MaxOrigin, y1 : 0..MaxOrigin,
     pad : 0..MaxPad]

\* An image whose element k holds k is converted to a tensor, and the tensor
\* is written into an image of the same descriptor whose elements hold 0.
RoundTrip ==
    \E d \in Descriptors :
        LET src == [k \in 1..memoryLength(d) |-> k]
            blank == [k \in 1..memoryLength(d) |-> 0]
            t == imageToTensorData(d, src)
        IN  /\ last' = [NoObs EXCEPT !.op = "roundTrip", !.desc = d, !.src = src,
                                       !.dst = tensorToImageData(d, t, blank),
                                       !.path = tensorToImage(d.components, d.pixelDepth)]
            /\ UNCHANGED <<params, enabled, connected, priv, torch, rnHint, stale,
                           jitLoaded, loadOK, peer>>

NextRoundTrip == RoundTrip

SpecRoundTrip == Init /\ [][NextRoundTrip]_vars

-----------------------------------------------------------------------------
(* Two instances *)

\* The host calls kOfxImageEffectActionRender on the second instance.
PeerRender(inputs) ==
    \E in \in inputs :
        \E r \in {effectRender(peer.torch, peer.priv, peer.params, in.time, in.e)} :
            /\ peer' = [peer EXCEPT !.torch = r.torch]
            /\ last' = [NoObs EXCEPT !.op = "peerRender", !.status = r.obs.status]
            /\ UNCHANGED <<params, enabled, connected, priv, torch, rnHint, stale, jitLoaded, loadOK>>

\* The user edits a parameter of the second instance.
PeerParamChanged(names) ==
    \E objChanged \in names :
      \E v \in ParamDomain(objChanged) \ {peer.params[objChanged]} :
        LET r == effectInstanceChanged(peer.torch, peer.priv, kOfxChangeUserEdited,
                                       kOfxTypeParameter, objChanged, FALSE)
        IN  /\ peer' = [params |-> [peer.params EXCEPT ![objChanged] = v],
                        priv |-> r.priv, torch |-> r.torch]
            /\ last' = [NoObs EXCEPT !.op = "peerChanged", !.status = r.status,
                                       !.path = objChanged,
                                       !.reason = kOfxChangeUserEdited]
            /\ UNCHANGED <<params, enabled, connected, priv, torch, rnHint, stale, jitLoaded, loadOK>>

\* getModelFilename builds the path in a static buffer (static char
\* path[PATH_MAX]) that all instances share, and modelSetup reads the buffer
\* afterwards, in torch::jit::load.  The plugin declares no render thread
\* safety, so the host may render two instances at the same time: the two
\* calls then race on the buffer.  What the load of an instance reads is its
\* own path, the path the other instance wrote in between, or a mix of both.
Races == {"none", "seesPeer", "peerSees", "torn", "peerTorn"}

\* effectRender of an instance whose load reads `seen` from the buffer:
\* "own", "torn" (a mix, which names no file) or the path of the other instance.
renderRacing(tc, pv, p, time, e, seen) ==
    IF seen = "torn"
    THEN effectRender(tc, pv, p, time, [e EXCEPT !.load = "loadThrows"])
    ELSE LET r == effectRender(tc, pv, p, time, e)
         IN  IF seen = "own" \/ ~r.obs.jitLoad
             THEN r
             ELSE [r EXCEPT !.torch.model.file = seen]

\* The host renders both instances at the same time, on two threads.
ConcurrentRender(inputs) ==
    \E in \in inputs, pin \in inputs, race \in Races :
        LET own == getModelFilename(params)
            other == getModelFilename(peer.params)
            \* both calls write the buffer and load from it, and write different paths
            bothLoad == /\ ~torch.ready /\ ~peer.torch.ready
                        /\ own # NULL /\ other # NULL /\ own # other
            seen == CASE race = "seesPeer" -> other
                      [] race = "torn"     -> "torn"
                      [] OTHER             -> "own"
            peerSeen == CASE race = "peerSees" -> own
                          [] race = "peerTorn" -> "torn"
                          [] OTHER             -> "own"
        IN  /\ race # "none" => bothLoad
            /\ \E r \in {renderRacing(torch, priv, params, in.time, in.e, seen)},
                  pr \in {renderRacing(peer.torch, peer.priv, peer.params,
                                       pin.time, pin.e, peerSeen)} :
                  /\ torch' = r.torch
                  /\ peer' = [peer EXCEPT !.torch = pr.torch]
                  /\ rnHint' = hintsAfterRender(rnHint, r)
                  /\ stale' = [i \in 1..4 |->
                                  IF ~defined(r.torch.rn[i]) THEN FALSE
                                  ELSE IF r.obs.fwdDone /\ i <= r.obs.stored THEN FALSE
                                  ELSE stale[i]]
                  /\ jitLoaded' = (jitLoaded \/ r.obs.jitLoad)
                  /\ loadOK' = (loadOK \/ (r.obs.tried /\ r.obs.path # "loadFailed"))
                  /\ last' = [r.obs EXCEPT !.op = "concurrent"]
                  /\ UNCHANGED <<params, enabled, connected, priv>>

\* The two-instance specification: renders that the host and libtorch let
\* succeed, of either instance alone and of both at once, interleaved with
\* user edits of the model selector of either.
MaxTwoTime == 1
TwoInputs == {[time |-> t, e |-> EnvOK] : t \in 0..MaxTwoTime}

NextTwo ==
    \/ Render(TwoInputs)
    \/ PeerRender(TwoInputs)
    \/ ConcurrentRender(TwoInputs)
    \/ ParamChanged({"model"})
    \/ PeerParamChanged({"model"})

SpecTwo == Init /\ [][NextTwo]_vars

-----------------------------------------------------------------------------
(* Properties *)

\* The recurrent history the forward pass of a render call sees: the load
\* step of a call that finds the session not ready has cleared it.
HistoryAtForward ==
    IF torch.ready THEN torch ELSE [torch EXCEPT !.rn_time = NaN, !.rn = NoHistory]

\* C1: a render call at time t gives the forward pass the four stored
\* hidden-state tensors if and only if hidden state is present and t is the
\* last-used time or the last-used time + 1; in every other case it gives
\* the input tensor only.
C1_ReuseRule ==
    [][(last'.op = "render" /\ last'.fwd # "none") =>
          LET h == HistoryAtForward
              reuse == /\ HistoryPresent(h)
                       /\ h.rn_time # NaN
                       /\ (last'.time = h.rn_time \/ last'.time = h.rn_time + 1)
          IN  IF reuse
              THEN last'.fwd = "warm" /\ last'.given = h.rn
              ELSE last'.fwd = "cold" /\ last'.given = <<>>]_vars

\* A render of the frame after the last-used one was given the stored state.
C1_Witness ==
    /\ last.op = "render" /\ last.fwd = "warm" /\ last.time = 1
    /\ last.given = [i \in 1..4 |-> OutTensor(0, i + 1)]

\* C2: after every forward pass that completes, the stored hidden-state
\* quadruple is outputs 2..5 of that pass and the last-used time is the
\* requested time.
C2_StoredAfterForward ==
    (last.op = "render" /\ last.fwdDone) =>
        /\ torch.rn_time = last.time
        /\ \A i \in 1..4 : torch.rn[i] = OutTensor(last.time, i + 1)

\* C3: between operations the recurrent history is whole or empty: all four
\* tensors present and a valid last-used time, or all four absent and the
\* last-used time NaN.
C3_WholeOrEmpty ==
    \/ (\A i \in 1..4 : defined(torch.rn[i])) /\ torch.rn_time # NaN
    \/ (\A i \in 1..4 : ~defined(torch.rn[i])) /\ torch.rn_time = NaN

\* C4: the first render call after a user edit of device, model, precision or
\* custom model path goes through the load (it is tried until one succeeds),
\* and a forward pass that follows the edit is never given hidden state that
\* was stored before it: the first one is a cold start, whatever the
\* requested time and however many load attempts failed in between.
C4_ColdAfterModelEdit ==
    [][last'.op = "render" =>
          /\ ~loadOK => last'.tried
          /\ (~loadOK /\ last'.fwd # "none") =>
                (last'.jitLoad /\ last'.fwd = "cold" /\ last'.given = <<>>)
          /\ ~last'.suppliedStale]_vars

\* A reload cleared hidden state that the requested time would have reused.
C4_Witness ==
    last.op = "render" /\ last.droppedStale /\ last.jitLoad /\ last.fwdDone

\* C5 (as stated): across render calls with no invalidating edit in between,
\* torch::jit::load is performed at most once.
C5_LoadAtMostOnce ==
    [][(last'.op = "render" /\ jitLoaded) => ~last'.jitLoad]_vars

\* C5 (amended): when the session is ready the load step returns success
\* without loading and without changing model, device, precision, ready flag
\* or history; so once a load has succeeded no render call loads again until
\* an invalidating edit.  (A load that fails is repeated by the next call.)
C5_IdempotentLoad ==
    [][(last'.op = "render" /\ (torch.ready \/ loadOK)) =>
          /\ torch.ready
          /\ ~last'.tried /\ ~last'.jitLoad /\ last'.path # "loadFailed"
          /\ torch'.ready
          /\ torch'.model = torch.model
          /\ torch'.device = torch.device
          /\ torch'.type = torch.type
          /\ last'.fwd = "none" => (torch'.rn = torch.rn /\ torch'.rn_time = torch.rn_time)
          /\ last'.fwd # "none" =>
                (last'.fwd = "warm") = useHistory(torch, last'.time)]_vars

\* A render call on a ready session ran the forward pass without loading.
C5_Witness ==
    last.op = "render" /\ ~last.tried /\ last.fwdDone /\ torch.ready /\ loadOK

\* C6: a render call whose load step fails returns kOfxStatFailed without
\* acquiring an image or running the forward pass and leaves the session
\* not ready; the next render call tries the load again, and renders if the
\* load then succeeds.
C6_LoadFailure ==
    [][(last'.op = "render" /\ last'.path = "loadFailed") =>
          /\ last'.status = kOfxStatFailed
          /\ last'.acquired = {} /\ last'.released = <<>>
          /\ last'.fwd = "none" /\ ~last'.wrote /\ ~last'.abortQueried
          /\ ~torch'.ready
          /\ \A t \in Times :
                LET r == effectRender(torch', priv', params', t, EnvOK)
                IN  /\ r.obs.tried
                    /\ getModelFilename(params') # NULL =>
                          (r.obs.status = kOfxStatOK /\ r.obs.wrote /\ r.torch.ready)]_vars

\* A load failed after torch::jit::load had completed.
C6_Witness ==
    last.op = "render" /\ last.path = "loadFailed" /\ last.jitLoad /\ ~torch.ready

\* C7: every image acquired during a render call has been released exactly
\* once when the call returns.
C7_ReleasedOnce ==
    last.op = "render" =>
        \A h \in last.acquired :
            Cardinality({k \in 1..Len(last.released) : last.released[k] = h}) = 1

MissingImagePaths == {"noOutputImage", "noInputImage"}

\* C8: a render call that cannot get a required image runs no forward pass,
\* writes nothing, asks the host whether it is aborting and returns
\* kOfxStatFailed if it is not, kOfxStatOK otherwise.
C8_MissingImage ==
    (last.op = "render" /\ last.path \in MissingImagePaths) =>
        /\ last.fwd = "none" /\ ~last.wrote
        /\ last.abortQueried
        /\ last.status = IF ~last.aborting THEN kOfxStatFailed ELSE kOfxStatOK

\* The input image was missing and the host was not aborting.
C8_Witness ==
    last.op = "render" /\ last.path = "noInputImage" /\ ~last.aborting
    /\ last.status = kOfxStatFailed

\* C9: a render call that cannot get a required image leaves the session
\* (ready flag, hidden-state tensors, last-used time) as its load step left it.
C9_MissingImageKeepsSession ==
    [][(last'.op = "render" /\ last'.path \in MissingImagePaths) =>
          torch' = modelSetup(torch, params, "ok").torch]_vars

\* An image was missing while the session held history.
C9_Witness ==
    last.op = "render" /\ last.path = "noOutputImage" /\ torch.ready
    /\ \A i \in 1..4 : defined(torch.rn[i])

ConfigErrorPaths == {"loadFailed", "inputUnrecognised"}

\* C10 (as stated): after a render call that fails on a configuration error
\* the session is not ready.
C10_UnreadyAfterConfigError ==
    (last.op = "render" /\ last.path \in ConfigErrorPaths) => ~torch.ready

\* C10 (amended): a render call that fails on the model path leaves the
\* session not ready; one that fails on an unrecognised pixel depth or
\* component layout leaves it ready, as its load step left it; either way
\* the next render call is not affected.
C10_AfterConfigError ==
    [][(last'.op = "render" /\ last'.path \in ConfigErrorPaths) =>
          /\ last'.path = "loadFailed" => ~torch'.ready
          /\ last'.path = "inputUnrecognised" =>
                (torch'.ready /\ torch' = modelSetup(torch, params, "ok").torch)
          /\ \A t \in Times :
                getModelFilename(params') # NULL =>
                    effectRender(torch', priv', params', t, EnvOK).obs.path = "written"]_vars

\* The input image was not understood and the session stayed ready.
C10_Witness ==
    last.op = "render" /\ last.path = "inputUnrecognised" /\ torch.ready
    /\ last.status = kOfxStatFailed

\* The ways a render call ends without having rendered the frame.
FailurePaths ==
    {"loadFailed", "noOutputImage", "noInputImage", "inputUnrecognised",
     "inputChannels", "convertThrew", "forwardThrew", "outputsMissing",
     "compositeFailed", "writeThrew", "writeSkipped"}

\* C11: a render call that fails (load failure, missing image, unrecognised
\* format or layout, unrecognised output type, exception in inference or
\* conversion) has written nothing to the output image and returns a status
\* other than kOfxStatOK.
C11_FailedRender ==
    (last.op = "render" /\ last.path \in FailurePaths) =>
        (~last.wrote /\ last.status # kOfxStatOK)

UserChanged(name) ==
    last'.op = "changed" /\ last'.reason = kOfxChangeUserEdited /\ last'.path = name

\* C12: a user-edit change notification for the clip "Input" leaves the four
\* hidden-state tensors undefined and rn_time NaN.
C12_InputClipInvalidates ==
    [][UserChanged("Input") =>
          (torch'.rn = NoHistory /\ torch'.rn_time = NaN)]_vars

\* C13: a user-edit change notification for downsampleRatio leaves the four
\* hidden-state tensors undefined and rn_time NaN and does not change the
\* ready flag, so the next render call is a cold start and, on a ready
\* session, does not load.
C13_RatioInvalidates ==
    [][UserChanged("downsampleRatio") =>
          /\ torch'.rn = NoHistory /\ torch'.rn_time = NaN
          /\ torch'.ready = torch.ready
          /\ torch'.model = torch.model
          /\ \A t \in Times :
                LET r == effectRender(torch', priv', params', t, EnvOK)
                IN  /\ r.obs.fwd # "none" => (r.obs.fwd = "cold" /\ r.obs.given = <<>>)
                    /\ torch.ready => (~r.obs.tried /\ r.obs.fwd = "cold")]_vars

\* A user edit of the ratio cleared the history of a ready session.
C13_Witness ==
    /\ last.op = "changed" /\ last.reason = kOfxChangeUserEdited
    /\ last.path = "downsampleRatio"
    /\ last.cleared
    /\ torch.ready /\ torch.rn = NoHistory /\ torch.rn_time = NaN

MatteFlag(name) == IF name = "GarbageMatte" THEN "hasGarbageMatte" ELSE "hasSolidMatte"

\* C14: a user-edit change notification for the clip GarbageMatte or
\* SolidMatte sets that clip's cached connected flag to the clip's connected
\* state and changes nothing else: not the other flag, not the ready flag,
\* not the hidden-state tensors, not rn_time.
C14_MatteClipOnlyFlag ==
    [][\A m \in {"GarbageMatte", "SolidMatte"} :
          UserChanged(m) =>
              /\ priv' = [priv EXCEPT ![MatteFlag(m)] = connected'[m]]
              /\ torch' = torch]_vars

\* C15: a user-edit change notification for device, model, modelPrecision or
\* modelFile sets the session not ready and changes nothing else: the four
\* hidden-state tensors, rn_time, the loaded model, its device and type and
\* the cached values are as before.
C15_ModelEditUnready ==
    [][\A n \in ModelParams :
          UserChanged(n) =>
              /\ ~torch'.ready
              /\ torch'.rn = torch.rn /\ torch'.rn_time = torch.rn_time
              /\ torch' = [torch EXCEPT !.ready = FALSE]
              /\ priv' = priv]_vars

\* A model parameter was edited on a ready session that holds history.
C15_Witness ==
    /\ last.op = "changed" /\ last.reason = kOfxChangeUserEdited
    /\ last.path \in ModelParams
    /\ ~torch.ready /\ torch.rn_time # NaN
    /\ \A i \in 1..4 : defined(torch.rn[i])
    /\ torch.model # NoModel

\* The dependency rules between the parameters, on a parameter store.
DependencyRules(p, en) ==
    /\ p.device = DEVICE_CPU =>
          (p.modelPrecision = MODEL_PRECISION_FLOAT32 /\ ~en.modelPrecision)
    /\ p.device = DEVICE_CUDA => en.modelPrecision
    /\ en.modelFile <=> (p.model = MODEL_CUSTOM)
    /\ en.colorSource <=> (p.outputType = OUTPUT_RGBA)
    /\ en.postmultiplyAlpha <=> (p.outputType = OUTPUT_RGBA)

\* C16: after the creation of the instance and after the close of every
\* user-edit batch the dependency rules hold: on the CPU the precision is
\* FLOAT32 and its control disabled, on CUDA its control is enabled; the
\* modelFile control is enabled exactly when the model is MODEL_CUSTOM; the
\* colorSource and postmultiplyAlpha controls are enabled exactly when the
\* output type is OUTPUT_RGBA.
C16_DependencyRules ==
    (last.op = "create" \/ (last.op = "endChanged" /\ last.reason = kOfxChangeUserEdited))
        => DependencyRules(params, enabled)

\* A user batch closed on CUDA, a custom model and alpha output.
C16_Witness ==
    /\ last.op = "endChanged" /\ last.reason = kOfxChangeUserEdited
    /\ params.device = DEVICE_CUDA /\ enabled.modelPrecision
    /\ params.modelPrecision = MODEL_PRECISION_FLOAT16
    /\ params.model = MODEL_CUSTOM /\ enabled.modelFile
    /\ params.outputType = OUTPUT_ALPHA
    /\ ~enabled.colorSource /\ ~enabled.postmultiplyAlpha

\* C17: at the close of every batch the cached downsample ratio, output
\* type, color source and postmultiply flag are the values of the parameter
\* store; the dependency rules are applied when the batch is a user edit,
\* and when it is not the parameter store is left as it was.
C17_EndBatchRefresh ==
    [][last'.op = "endChanged" =>
          /\ priv' = [priv EXCEPT !.downsampleRatio = params'.downsampleRatio,
                                  !.outputType = params'.outputType,
                                  !.colorSource = params'.colorSource,
                                  !.postmultiplyAlpha = params'.postmultiplyAlpha]
          /\ \A n \in ParamNames \ {"modelPrecision"} : params'[n] = params[n]
          /\ last'.reason = kOfxChangeUserEdited => DependencyRules(params', enabled')
          /\ last'.reason # kOfxChangeUserEdited =>
                (params' = params /\ enabled' = enabled)]_vars

\* A batch that was not a user edit closed: the cached output type was
\* refreshed, the controls were not.
C17_Witness ==
    /\ last.op = "endChanged" /\ last.reason = kOfxChangePluginEdited
    /\ params.outputType = OUTPUT_ALPHA /\ priv.outputType = OUTPUT_ALPHA
    /\ params.downsampleRatio # 0 /\ priv.downsampleRatio = params.downsampleRatio
    /\ enabled.colorSource
    /\ ~DependencyRules(params, enabled)

\* The post-processing of a render call was reached: the forward pass
\* completed and its six outputs were read.
Composited == last.op = "render" /\ last.fwdDone /\ last.stored = 4

\* C18: in full-color mode the composited tensor has 4 channels: C then A
\* when postmultiply is off, C x A (A on each of the 3 channels) then A when
\* it is on; A is the model's alpha, C the model's foreground when the color
\* source is the model, the first 3 channels of the input when it is the input.
C18_FullColor ==
    (Composited /\ priv.outputType = OUTPUT_RGBA) =>
        LET A == <<[src |-> "pha", k |-> 1]>>
            C == IF priv.colorSource = COLOR_SRC_MODEL
                 THEN [k \in 1..3 |-> <<[src |-> "fgr", k |-> k]>>]
                 ELSE [k \in 1..3 |-> <<[src |-> "in", k |-> k]>>]
        IN  /\ Len(last.out) = 4
            /\ last.out = IF priv.postmultiplyAlpha
                          THEN <<C[1] \o A, C[2] \o A, C[3] \o A, A>>
                          ELSE <<C[1], C[2], C[3], A>>

\* The input's colors, multiplied by the alpha, were written with the alpha.
C18_Witness ==
    /\ Composited /\ priv.outputType = OUTPUT_RGBA
    /\ priv.colorSource = COLOR_SRC_INPUT /\ priv.postmultiplyAlpha
    /\ last.out = <<
          <<[src |-> "in", k |-> 1], [src |-> "pha", k |-> 1]>>,
          <<[src |-> "in", k |-> 2], [src |-> "pha", k |-> 1]>>,
          <<[src |-> "in", k |-> 3], [src |-> "pha", k |-> 1]>>,
          <<[src |-> "pha", k |-> 1]>> >>
    /\ last.wrote

\* C19: in alpha-only mode the composited tensor is the model's alpha on
\* as many channels as the output image's layout has (Alpha 1, RGB 3, RGBA
\* 4); for an unrecognised output layout, and for an output type that is
\* neither full-color nor alpha-only, the call writes nothing, throws no
\* exception out of effectRender, releases its images and ends through the
\* abort path (kOfxStatFailed unless the host is aborting).
C19_AlphaOnly ==
    (Composited /\ priv.outputType # OUTPUT_RGBA) =>
        LET A == <<[src |-> "pha", k |-> 1]>>
            n == CASE last.outComp = "RGBA"  -> 4
                   [] last.outComp = "RGB"   -> 3
                   [] last.outComp = "Alpha" -> 1
                   [] OTHER                  -> 0
        IN  IF priv.outputType = OUTPUT_ALPHA /\ n # 0
            THEN last.out = [k \in 1..n |-> A] /\ last.path # "compositeFailed"
            ELSE /\ last.path = "compositeFailed"
                 /\ last.out = <<>> /\ ~last.wrote
                 /\ last.abortQueried
                 /\ last.status = (IF last.aborting THEN kOfxStatOK ELSE kOfxStatFailed)
                 /\ last.released = <<hOut, hIn>>

\* The alpha was written on the three channels of an RGB output image.
C19_Witness ==
    /\ Composited /\ priv.outputType = OUTPUT_ALPHA /\ last.outComp = "RGB"
    /\ last.out = << <<[src |-> "pha", k |-> 1]>>, <<[src |-> "pha", k |-> 1]>>,
                     <<[src |-> "pha", k |-> 1]>> >>
    /\ last.wrote

\* C20: the instances are independent: an operation on one instance leaves
\* the other's parameter store, cached values and session as they were, and
\* when both render at the same time each one's session becomes what its
\* own render, alone, makes of it.
C20_Independent ==
    [][/\ last'.op \in {"render", "changed", "endChanged"} => peer' = peer
       /\ last'.op \in {"peerRender", "peerChanged"} =>
             (torch' = torch /\ priv' = priv /\ params' = params)
       /\ last'.op = "concurrent" =>
             /\ \E t \in 0..MaxTwoTime :
                   torch' = effectRender(torch, priv, params, t, EnvOK).torch
             /\ \E t \in 0..MaxTwoTime :
                   peer'.torch = effectRender(peer.torch, peer.priv, peer.params,
                                              t, EnvOK).torch]_vars

\* Element k of the memory of image d belongs to the rectangle's rows as
\* the conversions address them.
InWindow(d, k) ==
    \E y \in 0..(d.h - 1) :
        LET start == (d.x1 + d.w * channels(d.components) + d.pad) * (d.y1 + y) + d.x1
        IN  k > start /\ k <= start + d.w * channels(d.components)

\* C21: an image of any recognised layout and depth, with or without row
\* padding and origin, converted to a tensor and written back into an image
\* of the same descriptor, gives back the original elements (exactly for
\* Byte and Short, the same value for Half and Float) and leaves the
\* elements outside the rectangle's rows as they were.
C21_RoundTrip ==
    last.op = "roundTrip" =>
        \A k \in 1..Len(last.src) :
            last.dst[k] = IF InWindow(last.desc, k) THEN last.src[k] ELSE 0

\* C22: a change notification whose reason is not a user edit, and a user
\* edit of a parameter other than device, model, modelPrecision, modelFile
\* and downsampleRatio, returns kOfxStatReplyDefault and leaves the session
\* (ready flag, hidden-state tensors, rn_time) and the cached values (matte
\* flags included) as they were.
C22_NotIntercepted ==
    [][(/\ last'.op = "changed"
        /\ \/ last'.reason # kOfxChangeUserEdited
           \/ last'.path \in {"outputType", "colorSource", "postmultiplyAlpha"})
          => /\ last'.status = kOfxStatReplyDefault
             /\ torch' = torch
             /\ priv' = priv]_vars

\* The ratio was changed, not by the user, on a ready session with history.
C22_Witness ==
    /\ last.op = "changed" /\ last.reason = kOfxChangePluginEdited
    /\ last.path = "downsampleRatio" /\ last.status = kOfxStatReplyDefault
    /\ torch.ready /\ torch.rn_time # NaN
    /\ \A i \in 1..4 : defined(torch.rn[i])

\* C23: modelClearHistory, called in any reachable state, ends with rn_time
\* NaN and the four hidden-state tensors undefined, changes nothing when the
\* history is already empty, and changes neither the ready flag nor the
\* model; the handler that calls it for a ratio edit changes no cached value.
C23_ClearHistory ==
    [][LET r == modelClearHistory(torch)
       IN  /\ r.rn_time = NaN /\ r.rn = NoHistory
           /\ (torch.rn_time = NaN /\ torch.rn = NoHistory) => r = torch
           /\ r = [torch EXCEPT !.rn_time = NaN, !.rn = NoHistory]
           /\ UserChanged("downsampleRatio") => (torch' = r /\ priv' = priv)]_vars

\* The history that was cleared held one tensor only.
C23_Witness ==
    /\ last.op = "changed" /\ last.reason = kOfxChangeUserEdited
    /\ last.path = "downsampleRatio"
    /\ last.had = 1 /\ last.cleared
    /\ torch.rn = NoHistory /\ torch.rn_time = NaN /\ torch.ready

\* C24: every handle a render call passes to clipReleaseImage is one that a
\* successful clipGetImage of that call returned.
C24_ReleasesOnlyAcquired ==
    last.op = "render" =>
        \A k \in 1..Len(last.released) : last.released[k] \in last.acquired

\* The failing steps of a render call: buffer acquisition, input conversion,
\* forward pass, compositing, write-back.
NamedFailureSteps ==
    {"noOutputImage", "noInputImage", "inputUnrecognised", "inputChannels",
     "convertThrew", "forwardThrew", "compositeFailed", "writeThrew",
     "writeSkipped"}

\* C25: a render call that ends in failure or abort leaves the recurrent
\* history as it was before the call's forward pass: the four hidden-state
\* tensors and the last-used time are unchanged, whatever step failed.
C25_FailureKeepsHistory ==
    [][(/\ last'.op = "render"
        /\ last'.path \in NamedFailureSteps
        /\ last'.status # kOfxStatOK \/ last'.abortQueried)
          => /\ torch'.rn = HistoryAtForward.rn
             /\ torch'.rn_time = HistoryAtForward.rn_time]_vars

\* C26: whenever stored hidden state is given to a forward pass, each tensor
\* of it was produced by a forward pass that ran with the downsample_ratio
\* hint of the current pass.
C26_SameRatioHistory ==
    [][(last'.op = "render" /\ last'.fwd = "warm") =>
          \A i \in 1..4 : defined(last'.given[i]) => rnHint[i] = {last'.hint}]_vars

\* C27: a render call that directly follows the creation of the instance or
\* an end-of-batch notification, so that no parameter change is pending,
\* reads cached values of the downsample ratio, the output type, the color
\* source and the postmultiply flag equal to the parameters' values.
C27_CacheMatchesParams ==
    [][(last.op \in {"create", "endChanged"} /\ last'.op = "render") =>
          /\ priv.downsampleRatio = params.downsampleRatio
          /\ priv.outputType = params.outputType
          /\ priv.colorSource = params.colorSource
          /\ priv.postmultiplyAlpha = params.postmultiplyAlpha]_vars

\* C28: whenever the session is ready, the device, the precision and the
\* model file the model was loaded with are those the current values of the
\* device, precision, model and custom-path parameters resolve to.
C28_LoadedMatchesParams ==
    torch.ready =>
        /\ torch.device = (IF params.device = DEVICE_CPU THEN "kCPU" ELSE "kCUDA")
        /\ torch.model.device = torch.device
        /\ torch.type = (IF params.modelPrecision = MODEL_PRECISION_FLOAT16
                         THEN "kFloat16" ELSE "kFloat32")
        /\ torch.model.file = getModelFilename(params)

====
